---------------------------- MODULE Spec2Model ----------------------------
(***************************************************************************)
(* ParkingFeeCalculator (contracts/ParkingFeeCalculator.sol): the contract *)
(* state, its entry points, and the branch-free ceiling-division ladder of *)
(* quote.                                                                  *)
(*                                                                         *)
(* A ciphertext is modelled by the plaintext it decrypts to.  A 64-bit     *)
(* word (uint64 / euint64) is a tuple of four 16-bit limbs, least          *)
(* significant first, because the model checker's integers are 32 bits     *)
(* wide; all arithmetic on words is modulo 2^64 as in the FHE library.     *)
(***************************************************************************)
EXTENDS Integers, Sequences, FiniteSets, TLC

(***************************************************************************)
(* 64-bit words.                                                           *)
(***************************************************************************)
LimbBase == 2^16

\* uint64(n) for a plaintext n that fits the checker's integers (n < 2^31).
U64(n) == <<n % LimbBase, (n \div LimbBase) % LimbBase, 0, 0>>

\* 2^e as a word, 0 <= e <= 63.
Pow2Word(e) == [i \in 1..4 |-> IF i - 1 = e \div 16 THEN 2^(e % 16) ELSE 0]

Zero64 == U64(0)

Max64 == <<LimbBase - 1, LimbBase - 1, LimbBase - 1, LimbBase - 1>>

\* The plaintext of a word below 2^31.
Small(w) == w[3] = 0 /\ w[4] = 0 /\ w[2] < 2^15

ToNat(w) == w[1] + w[2] * LimbBase

\* a > b on words.
WordGt(a, b) ==
    \/ a[4] > b[4]
    \/ a[4] = b[4] /\ a[3] > b[3]
    \/ a[4] = b[4] /\ a[3] = b[3] /\ a[2] > b[2]
    \/ a[4] = b[4] /\ a[3] = b[3] /\ a[2] = b[2] /\ a[1] > b[1]

\* a + b modulo 2^64.
WordAdd(a, b) ==
    LET s1 == a[1] + b[1]
        s2 == a[2] + b[2] + s1 \div LimbBase
        s3 == a[3] + b[3] + s2 \div LimbBase
        s4 == a[4] + b[4] + s3 \div LimbBase
    IN  <<s1 % LimbBase, s2 % LimbBase, s3 % LimbBase, s4 % LimbBase>>

\* a - b modulo 2^64 (wraps when a < b).
WordSub(a, b) ==
    LET d1 == a[1] - b[1]
        d2 == a[2] - b[2] - (IF d1 < 0 THEN 1 ELSE 0)
        d3 == a[3] - b[3] - (IF d2 < 0 THEN 1 ELSE 0)
        d4 == a[4] - b[4] - (IF d3 < 0 THEN 1 ELSE 0)
    IN  <<d1 % LimbBase, d2 % LimbBase, d3 % LimbBase, d4 % LimbBase>>

\* The 32-bit product of two limbs as <<low limb, high limb>>.
LimbMul(x, y) ==
    LET p0 == x * (y % 256)
        p1 == x * (y \div 256)
        t  == p0 + (p1 % 256) * 256
    IN  <<t % LimbBase, t \div LimbBase + p1 \div 256>>

\* The full 128-bit product of two words, as eight limbs.
WordMulFull(a, b) ==
    LET P(i, j) == LimbMul(a[i], b[j])
        \* column k (0-based): low limbs of products with i+j = k, high limbs
        \* of products with i+j = k-1
        Lo(k) == {<<i, k + 2 - i>> : i \in {i \in 1..4 : k + 2 - i \in 1..4}}
        RECURSIVE SumSet(_, _)
        SumSet(S, h) == IF S = {} THEN 0
                        ELSE LET e == CHOOSE x \in S : TRUE
                             IN  P(e[1], e[2])[h] + SumSet(S \ {e}, h)
        Col(k) == SumSet(Lo(k), 1) + (IF k = 0 THEN 0 ELSE SumSet(Lo(k - 1), 2))
        RECURSIVE Carry(_)
        Carry(k) == IF k < 0 THEN 0 ELSE (Col(k) + Carry(k - 1)) \div LimbBase
    IN  [k \in 1..8 |-> (Col(k - 1) + Carry(k - 2)) % LimbBase]

\* a * b modulo 2^64.
WordMul(a, b) == LET f == WordMulFull(a, b) IN <<f[1], f[2], f[3], f[4]>>


(***************************************************************************)
(* Program constants.                                                      *)
(***************************************************************************)
BLOCK_MINUTES == 30

\* The parameters scripts/deploy.ts passes to the constructor.
PRICE_PER_BLOCK == 50

MAX_BLOCKS == 96

\* The largest uint16 (maxBlocks is a uint16).
MaxUint16 == 2^16 - 1

(***************************************************************************)
(* Bounds of the model.                                                    *)
(***************************************************************************)
\* Successful quotes per behaviour (the length of the event log).
MaxEvents == 2

\* The ladder is run on every minutes value in 0..MaxMinutes (and on the
\* boundary values of the policy, see EngineMinutes).
MaxMinutes == 200

\* The ladder is run under every cap in 1..MaxSmallCap (and under MAX_BLOCKS
\* and MaxUint16).
MaxSmallCap == 6

MaxInitCalls == 4

MaxRetries == 2

MaxHookCalls == 2

(***************************************************************************)
(* The FHE library's operations on euint64, on the plaintexts.             *)
(***************************************************************************)
FHE_gt(a, b) == WordGt(a, b)

FHE_sub(a, b) == WordSub(a, b)

FHE_add(a, b) == WordAdd(a, b)

FHE_mul(a, b) == WordMul(a, b)

FHE_select(c, ifTrue, ifFalse) == IF c THEN ifTrue ELSE ifFalse

(***************************************************************************)
(* quote's arithmetic.                                                     *)
(***************************************************************************)
\* ++p and --ki inside unchecked blocks, on uint8.
Inc8(p) == (p + 1) % 256

Dec8(k) == (k + 255) % 256

RECURSIVE MsbLoop(_, _)
MsbLoop(x, p) == IF x > 1 THEN MsbLoop(x \div 2, Inc8(p)) ELSE p

\* A variant of _msbPos: the bit length, not the position of the top bit.
_msbPos_BitLength(x) == MsbLoop(x, 1)

_msbPos(x) == MsbLoop(x, 0)

\* A variant of Chunk: the shift is one too far.
Chunk_Shifted(k) == BLOCK_MINUTES * 2^(k + 1)

\* chunk = 30 * (1 << k)
Chunk(k) == BLOCK_MINUTES * 2^k

\* euint64 rem = fromExternal(...); euint64 blocks = asEuint64(0)
LadderStart(minutes) == [rem |-> minutes, blocks |-> U64(0)]

\* A variant of LadderIter: the comparison is rem > chunk, not rem >= chunk.
LadderIter_StrictGt(st, k) ==
    LET chunk      == Chunk(k)
        ge         == FHE_gt(st.rem, U64(chunk))
        remMinus   == FHE_sub(st.rem, U64(chunk))
        addBy      == U64(2^k)
        blocksPlus == FHE_add(st.blocks, addBy)
    IN  [rem    |-> FHE_select(ge, remMinus, st.rem),
         blocks |-> FHE_select(ge, blocksPlus, st.blocks)]

\* A variant of LadderIter: the difference is adopted without the select.
LadderIter_Unguarded(st, k) ==
    LET chunk      == Chunk(k)
        ge         == FHE_gt(st.rem, U64(chunk - 1))
        remMinus   == FHE_sub(st.rem, U64(chunk))
        addBy      == U64(2^k)
        blocksPlus == FHE_add(st.blocks, addBy)
    IN  [rem    |-> remMinus,
         blocks |-> FHE_select(ge, blocksPlus, st.blocks)]

\* A variant of LadderIter: the block count grows by 1, not by 1 << k.
LadderIter_AddOne(st, k) ==
    LET chunk      == Chunk(k)
        ge         == FHE_gt(st.rem, U64(chunk - 1))
        remMinus   == FHE_sub(st.rem, U64(chunk))
        addBy      == U64(1)
        blocksPlus == FHE_add(st.blocks, addBy)
    IN  [rem    |-> FHE_select(ge, remMinus, st.rem),
         blocks |-> FHE_select(ge, blocksPlus, st.blocks)]

\* One iteration of the ladder's body, for bit k.
LadderIter(st, k) ==
    LET chunk      == Chunk(k)
        ge         == FHE_gt(st.rem, U64(chunk - 1))
        remMinus   == FHE_sub(st.rem, U64(chunk))
        addBy      == U64(2^k)
        blocksPlus == FHE_add(st.blocks, addBy)
    IN  [rem    |-> FHE_select(ge, remMinus, st.rem),
         blocks |-> FHE_select(ge, blocksPlus, st.blocks)]

\* for (uint8 ki = kMax + 1; ki > 0; ) { --ki; k = ki; ... }
RECURSIVE LadderLoop(_, _)
LadderLoop(st, ki) ==
    IF ki > 0 THEN LadderLoop(LadderIter(st, Dec8(ki)), Dec8(ki)) ELSE st

\* Variants of CeilAdjust: the select's branches swapped; the adjustment left
\* out; a block added whether or not a remainder is left.
CeilAdjust_Swapped(st) ==
    LET hasRem == FHE_gt(st.rem, U64(0))
    IN  FHE_select(hasRem, st.blocks, FHE_add(st.blocks, U64(1)))

CeilAdjust_Floor(st) == st.blocks

CeilAdjust_AlwaysAdd(st) == FHE_add(st.blocks, U64(1))

\* Ceil: if remainder > 0, add 1 block.
CeilAdjust(st) ==
    LET hasRem == FHE_gt(st.rem, U64(0))
    IN  FHE_select(hasRem, FHE_add(st.blocks, U64(1)), st.blocks)

\* Variants of CapBlocks: the cap left out; the comparison off by one.
CapBlocks_NoClamp(blocks, mb) == blocks

CapBlocks_OffByOne(blocks, mb) ==
    LET tooMany == FHE_gt(blocks, U64(mb + 1))
    IN  FHE_select(tooMany, U64(mb), blocks)

\* Cap blocks at maxBlocks.
CapBlocks(blocks, mb) ==
    LET tooMany == FHE_gt(blocks, U64(mb))
    IN  FHE_select(tooMany, U64(mb), blocks)

\* fee = blocks * pricePerBlock
FeeOf(blocks, price) == FHE_mul(blocks, price)

\* The block count quote computes before the cap, and after it.
PreCapBlocks(minutes, mb) ==
    CeilAdjust(LadderLoop(LadderStart(minutes), _msbPos(mb) + 1))

QuoteBlocks(minutes, mb) == CapBlocks(PreCapBlocks(minutes, mb), mb)

\* The fee quote computes from the ingested minutes under policy (mb, price).
QuoteFee(minutes, mb, price) == FeeOf(QuoteBlocks(minutes, mb), price)

(***************************************************************************)
(* The primitive operations quote performs, in order: each is its kind and *)
(* the plaintext constant it lifts (Zero64 where it lifts none).           *)
(***************************************************************************)
Prim(kind) == <<kind, Zero64>>

asEuint64(c) == <<"asEuint64", c>>

\* fromExternal(minutesExt, proof); blocks = asEuint64(0)
StartOps == <<Prim("fromExternal"), asEuint64(U64(0))>>

\* A variant of IterOps: the subtraction is skipped when the remainder is
\* below the chunk.
IterOps_Branching(st, k) ==
    IF FHE_gt(st.rem, U64(Chunk(k) - 1))
    THEN <<asEuint64(U64(Chunk(k) - 1)), Prim("gt"),
           asEuint64(U64(Chunk(k))), Prim("sub"), Prim("select"),
           asEuint64(U64(2^k)), Prim("add"), Prim("select")>>
    ELSE <<asEuint64(U64(Chunk(k) - 1)), Prim("gt")>>

\* The operations of one iteration of the ladder's body, for bit k, run on
\* state st: the body has no branch, so st is not consulted.
IterOps(st, k) ==
    <<asEuint64(U64(Chunk(k) - 1)), Prim("gt"),
      asEuint64(U64(Chunk(k))), Prim("sub"), Prim("select"),
      asEuint64(U64(2^k)), Prim("add"), Prim("select")>>

\* hasRem = gt(rem, asEuint64(0)); select(hasRem, add(blocks, asEuint64(1)), blocks)
CeilOps ==
    <<asEuint64(U64(0)), Prim("gt"), asEuint64(U64(1)), Prim("add"), Prim("select")>>

\* tooMany = gt(blocks, asEuint64(maxBlocks)); select(tooMany, asEuint64(maxBlocks), blocks)
CapOps(mb) ==
    <<asEuint64(U64(mb)), Prim("gt"), asEuint64(U64(mb)), Prim("select")>>

\* mul(blocks, asEuint64(pricePerBlock))
MulOps(price) == <<asEuint64(price), Prim("mul")>>

RECURSIVE OpsLoop(_, _)
OpsLoop(st, ki) ==
    IF ki > 0
    THEN IterOps(st, Dec8(ki)) \o OpsLoop(LadderIter(st, Dec8(ki)), Dec8(ki))
    ELSE <<>>

\* The operations quote performs on the ingested minutes under policy (mb, price).
QuoteOps(minutes, mb, price) ==
    StartOps \o OpsLoop(LadderStart(minutes), _msbPos(mb) + 1)
        \o CeilOps \o CapOps(mb) \o MulOps(price)

(***************************************************************************)
(* Identities, encrypted inputs and handles.                               *)
(***************************************************************************)
\* address(0), the contract's own address, and the externally owned accounts:
\* the deployer and two users.
ZeroAddress == "0x0"

This == "this"

Deployer == "O"

Callers == {"O", "A", "B"}

\* The zero handle (an euint64 never assigned) and the handle of a fee: the
\* library derives a result's handle from the operation and its operands,
\* that is from the input and from the plaintext constants (the policy) the
\* computation lifted.
NoHandle == [kind |-> "zero", inp |-> 0, mb |-> 0, price |-> Zero64]

FeeHandle(i, mb, price) == [kind |-> "fee", inp |-> i, mb |-> mb, price |-> price]

\* The encrypted inputs the relayer has produced: each is bound to the user
\* who encrypted it (and to this contract) and decrypts to val.
ExtInputs ==
    << [user |-> "A", val |-> U64(5000)],
       [user |-> "B", val |-> U64(0)] >>

InputIds == 1..Len(ExtInputs)

\* bytes proof: empty, or the relayer's attestation of input i for its user.
EmptyProof == [inp |-> 0, user |-> ZeroAddress]

ProofOf(i) == [inp |-> i, user |-> ExtInputs[i].user]

Proofs == {EmptyProof} \cup {ProofOf(i) : i \in InputIds}

\* FHE.fromExternal(minutesExt, proof): the proof attests this input for
\* msg.sender.
ProofValid(sender, ext, proof) == proof.inp = ext /\ proof.user = sender

\* The arguments transferOwnership and the setters are called with.
TransferTargets == {Deployer, "A", ZeroAddress}

SetterPrices == {Zero64, U64(PRICE_PER_BLOCK), Pow2Word(63)}

SetterMaxBlocks == {0, 2, MAX_BLOCKS}

\* The revert reasons, by the error each stands for.
NotAuthorizedError == {"Not owner"}

InvalidPolicyError == {"price=0", "maxBlocks=0", "Zero owner"}

InvalidProofError == {"Empty proof", "Invalid proof"}

(***************************************************************************)
(* State.                                                                  *)
(***************************************************************************)
VARIABLES
    owner,          \* address public owner
    pricePerBlock,  \* uint64 public pricePerBlock (a word)
    maxBlocks,      \* uint16 public maxBlocks
    lastFee,        \* mapping(address => euint64) _lastFee, as handles
    plain,          \* the plaintext each fee ciphertext decrypts to
    acl,            \* the persistent decrypt grants: <<handle, identity>>
    events,         \* the Quoted events emitted so far
    tx,             \* the last call: function, sender, argument, outcome
    pc,             \* quote's arithmetic, step by step: position
    ki,             \*   the loop counter (uint8)
    run             \*   the ingested minutes, and rem, blocks, fee, and the
                    \*   primitive operations performed so far

contractVars == <<owner, pricePerBlock, maxBlocks, lastFee, plain, acl, events, tx>>

engineVars == <<pc, ki, run>>

\* The client's module-level state (the FHE singleton of the SDK wrapper).
VARIABLES
    fheInstance,      \* let fheInstance: the instance, named by the attempt
                      \*   that created it, or NoInstance for null
    initPromise,      \* let initPromise: the attempt it is the promise of, or
                      \*   NoPromise for null
    isSDKInitialized, \* let isSDKInitialized
    attempts,         \* the runs of initializeFHE's async initializer, in the
                      \*   order they were started: where each one stands
    fheCalls,         \* the calls of initializeFHE so far: what each returned
                      \*   and how it settled for its caller
    sdkCalls          \* how often initSDK and createInstance were invoked

fheVars == <<fheInstance, initPromise, isSDKInitialized, attempts, fheCalls, sdkCalls>>

\* One call of fetchRetry.
VARIABLES
    retryOpts,        \* the call's retries and retryOn after the defaults
    retryPc,          \* where the call stands: idle, fetching, timer, settled
    retryAttempt,     \* wrappedFetch's attempt
    fetchCount,       \* how often fetchImpl was invoked
    fetchLog,         \* what each finished fetchImpl call gave, in order
    settlements       \* the calls of resolve and reject, in order

retryVars == <<retryOpts, retryPc, retryAttempt, fetchCount, fetchLog, settlements>>

\* The useCalculateFee hook of one mounted component.
VARIABLES
    CONTRACT_ADDRESS, \* the configured contract address, "" when missing
    hookState,        \* useState: isCalculating, error, result
    hookCalls         \* the calls of calculateFee so far: where each stands

hookVars == <<CONTRACT_ADDRESS, hookState, hookCalls>>

clientVars == <<fheVars, retryVars, hookVars>>

vars == <<owner, pricePerBlock, maxBlocks, lastFee, plain, acl, events, tx, pc, ki, run,
          fheInstance, initPromise, isSDKInitialized, attempts, fheCalls, sdkCalls,
          retryOpts, retryPc, retryAttempt, fetchCount, fetchLog, settlements,
          CONTRACT_ADDRESS, hookState, hookCalls>>

NoInstance == 0

NoPromise == 0

\* The module as loaded: no instance, no pending initialization.
FheLoaded ==
    /\ fheInstance = NoInstance
    /\ initPromise = NoPromise
    /\ isSDKInitialized = FALSE
    /\ attempts = <<>>
    /\ fheCalls = <<>>
    /\ sdkCalls = [initSDK |-> 0, createInstance |-> 0]

\* const BASE_DEFAULTS = { retries: 3, retryDelay: 1000, retryOn: [] }
DefaultRetries == 3

\* A retryOn that is an array of statuses, and one that is a function.
ArrayOf(statuses) == [isArray |-> TRUE, statuses |-> statuses]

RetryOnFn == [isArray |-> FALSE, statuses |-> {}]

BASE_DEFAULTS == [retries |-> DefaultRetries, retryOn |-> ArrayOf({})]

\* No call of fetchRetry has been made.
RetryLoaded ==
    /\ retryOpts = BASE_DEFAULTS
    /\ retryPc = "idle"
    /\ retryAttempt = 0
    /\ fetchCount = 0
    /\ fetchLog = <<>>
    /\ settlements = <<>>

Null == "null"

\* result: null, or the { feeHandle, txHash } that a call obtained.
NoResult == [call |-> 0]

ResultOf(c) == [call |-> c]

\* useState({ isCalculating: false, error: null, result: null })
HookMounted ==
    /\ hookState = [isCalculating |-> FALSE, error |-> Null, result |-> NoResult]
    /\ hookCalls = <<>>

\* The address the deployment configures.
ConfiguredAddress == "0xC"

\* The client before any of its functions has been called.
ClientLoaded ==
    /\ FheLoaded
    /\ RetryLoaded
    /\ HookMounted
    /\ CONTRACT_ADDRESS = ConfiguredAddress

NoRun == [minutes |-> Zero64, rem |-> Zero64, blocks |-> Zero64, fee |-> Zero64, ops |-> <<>>]

NoTx == [fn |-> "constructor", sender |-> Deployer, arg |-> 0, status |-> "ok", ret |-> NoHandle]

Reverted(fn, sender, arg, why) ==
    /\ tx' = [fn |-> fn, sender |-> sender, arg |-> arg, status |-> why, ret |-> NoHandle]
    /\ UNCHANGED <<owner, pricePerBlock, maxBlocks, lastFee, plain, acl, events>>

Returned(fn, sender, arg, ret) ==
    tx' = [fn |-> fn, sender |-> sender, arg |-> arg, status |-> "ok", ret |-> ret]

(***************************************************************************)
(* The contract.                                                           *)
(***************************************************************************)
\* constructor(pricePerBlock_, maxBlocks_) as scripts/deploy.ts calls it.
Constructed(price, mb) ==
    /\ price # Zero64
    /\ mb > 0
    /\ owner = Deployer
    /\ pricePerBlock = price
    /\ maxBlocks = mb
    /\ lastFee = [c \in Callers |-> NoHandle]
    /\ plain = <<>>
    /\ acl = {}
    /\ events = <<>>
    /\ tx = NoTx

Init ==
    /\ Constructed(U64(PRICE_PER_BLOCK), MAX_BLOCKS)
    /\ pc = "idle"
    /\ ki = 0
    /\ run = NoRun
    /\ ClientLoaded

\* A variant of onlyOwner: the deployer stays authorized after a transfer.
onlyOwner_OrDeployer(sender) == sender = owner \/ sender = Deployer

\* modifier onlyOwner: require(msg.sender == owner, "Not owner")
onlyOwner(sender) == sender = owner

\* A variant of transferOwnership: the new owner is checked but not stored.
transferOwnership_NoAssign(sender, n) ==
    /\ IF ~onlyOwner(sender) THEN Reverted("transferOwnership", sender, n, "Not owner")
       ELSE IF n = ZeroAddress THEN Reverted("transferOwnership", sender, n, "Zero owner")
       ELSE /\ Returned("transferOwnership", sender, n, NoHandle)
            /\ UNCHANGED <<owner, pricePerBlock, maxBlocks, lastFee, plain, acl, events>>
    /\ UNCHANGED <<engineVars, clientVars>>

\* A variant of transferOwnership: the hand-over re-initialises the policy
\* to the deployment's values.
transferOwnership_Reinitialise(sender, n) ==
    /\ IF ~onlyOwner(sender) THEN Reverted("transferOwnership", sender, n, "Not owner")
       ELSE IF n = ZeroAddress THEN Reverted("transferOwnership", sender, n, "Zero owner")
       ELSE /\ owner' = n
            /\ pricePerBlock' = U64(PRICE_PER_BLOCK)
            /\ maxBlocks' = MAX_BLOCKS
            /\ Returned("transferOwnership", sender, n, NoHandle)
            /\ UNCHANGED <<lastFee, plain, acl, events>>
    /\ UNCHANGED <<engineVars, clientVars>>

transferOwnership(sender, n) ==
    /\ IF ~onlyOwner(sender) THEN Reverted("transferOwnership", sender, n, "Not owner")
       ELSE IF n = ZeroAddress THEN Reverted("transferOwnership", sender, n, "Zero owner")
       ELSE /\ owner' = n
            /\ Returned("transferOwnership", sender, n, NoHandle)
            /\ UNCHANGED <<pricePerBlock, maxBlocks, lastFee, plain, acl, events>>
    /\ UNCHANGED <<engineVars, clientVars>>

\* A variant of setPricePerBlock: the price is stored before it is checked.
setPricePerBlock_NoZeroCheck(sender, newPrice) ==
    /\ IF ~onlyOwner(sender) THEN Reverted("setPricePerBlock", sender, newPrice, "Not owner")
       ELSE /\ pricePerBlock' = newPrice
            /\ Returned("setPricePerBlock", sender, newPrice, NoHandle)
            /\ UNCHANGED <<owner, maxBlocks, lastFee, plain, acl, events>>
    /\ UNCHANGED <<engineVars, clientVars>>

\* A variant of setPricePerBlock: the stored fees are re-priced.
setPricePerBlock_Retroactive(sender, newPrice) ==
    /\ IF ~onlyOwner(sender) THEN Reverted("setPricePerBlock", sender, newPrice, "Not owner")
       ELSE IF newPrice = Zero64 THEN Reverted("setPricePerBlock", sender, newPrice, "price=0")
       ELSE /\ pricePerBlock' = newPrice
            /\ plain' = [h \in DOMAIN plain |->
                             QuoteFee(ExtInputs[h.inp].val, h.mb, newPrice)]
            /\ Returned("setPricePerBlock", sender, newPrice, NoHandle)
            /\ UNCHANGED <<owner, maxBlocks, lastFee, acl, events>>
    /\ UNCHANGED <<engineVars, clientVars>>

setPricePerBlock(sender, newPrice) ==
    /\ IF ~onlyOwner(sender) THEN Reverted("setPricePerBlock", sender, newPrice, "Not owner")
       ELSE IF newPrice = Zero64 THEN Reverted("setPricePerBlock", sender, newPrice, "price=0")
       ELSE /\ pricePerBlock' = newPrice
            /\ Returned("setPricePerBlock", sender, newPrice, NoHandle)
            /\ UNCHANGED <<owner, maxBlocks, lastFee, plain, acl, events>>
    /\ UNCHANGED <<engineVars, clientVars>>

\* A variant of setMaxBlocks: zero is accepted.
setMaxBlocks_NoZeroCheck(sender, newMax) ==
    /\ IF ~onlyOwner(sender) THEN Reverted("setMaxBlocks", sender, newMax, "Not owner")
       ELSE /\ maxBlocks' = newMax
            /\ Returned("setMaxBlocks", sender, newMax, NoHandle)
            /\ UNCHANGED <<owner, pricePerBlock, lastFee, plain, acl, events>>
    /\ UNCHANGED <<engineVars, clientVars>>

\* A variant of setMaxBlocks: the value is checked before the sender.
setMaxBlocks_ValueFirst(sender, newMax) ==
    /\ IF newMax = 0 THEN Reverted("setMaxBlocks", sender, newMax, "maxBlocks=0")
       ELSE IF ~onlyOwner(sender) THEN Reverted("setMaxBlocks", sender, newMax, "Not owner")
       ELSE /\ maxBlocks' = newMax
            /\ Returned("setMaxBlocks", sender, newMax, NoHandle)
            /\ UNCHANGED <<owner, pricePerBlock, lastFee, plain, acl, events>>
    /\ UNCHANGED <<engineVars, clientVars>>

setMaxBlocks(sender, newMax) ==
    /\ IF ~onlyOwner(sender) THEN Reverted("setMaxBlocks", sender, newMax, "Not owner")
       ELSE IF newMax = 0 THEN Reverted("setMaxBlocks", sender, newMax, "maxBlocks=0")
       ELSE /\ maxBlocks' = newMax
            /\ Returned("setMaxBlocks", sender, newMax, NoHandle)
            /\ UNCHANGED <<owner, pricePerBlock, lastFee, plain, acl, events>>
    /\ UNCHANGED <<engineVars, clientVars>>

getMyFeeHandle(sender) ==
    /\ Returned("getMyFeeHandle", sender, 0, lastFee[sender])
    /\ UNCHANGED <<owner, pricePerBlock, maxBlocks, lastFee, plain, acl, events>>
    /\ UNCHANGED <<engineVars, clientVars>>

\* The getters of the public variables, called without a sender.
getPricePerBlock ==
    /\ Returned("pricePerBlock", ZeroAddress, 0, pricePerBlock)
    /\ UNCHANGED <<owner, pricePerBlock, maxBlocks, lastFee, plain, acl, events>>
    /\ UNCHANGED <<engineVars, clientVars>>

getMaxBlocks ==
    /\ Returned("maxBlocks", ZeroAddress, 0, maxBlocks)
    /\ UNCHANGED <<owner, pricePerBlock, maxBlocks, lastFee, plain, acl, events>>
    /\ UNCHANGED <<engineVars, clientVars>>

\* Variants of StoreAndGrant: the owner is granted the fee as well; the last
\* fee is one slot shared by all callers instead of a mapping.
StoreAndGrant_AllowOwner(sender, h, fee) ==
    /\ lastFee' = [lastFee EXCEPT ![sender] = h]
    /\ plain' = (h :> fee) @@ plain
    /\ acl' = acl \cup {<<h, This>>, <<h, sender>>, <<h, owner>>}
    /\ events' = Append(events, [user |-> sender, feeHandle |-> h])

StoreAndGrant_SharedSlot(sender, h, fee) ==
    /\ lastFee' = [c \in Callers |-> h]
    /\ plain' = (h :> fee) @@ plain
    /\ acl' = acl \cup {<<h, This>>, <<h, sender>>}
    /\ events' = Append(events, [user |-> sender, feeHandle |-> h])

\* A variant of StoreAndGrant: a caller's first fee is never overwritten.
StoreAndGrant_KeepFirst(sender, h, fee) ==
    /\ lastFee' = IF lastFee[sender] = NoHandle THEN [lastFee EXCEPT ![sender] = h]
                  ELSE lastFee
    /\ plain' = (h :> fee) @@ plain
    /\ acl' = acl \cup {<<h, This>>, <<h, sender>>}
    /\ events' = Append(events, [user |-> sender, feeHandle |-> h])

\* A variant of StoreAndGrant: the event names the owner, not the caller.
StoreAndGrant_EventOwner(sender, h, fee) ==
    /\ lastFee' = [lastFee EXCEPT ![sender] = h]
    /\ plain' = (h :> fee) @@ plain
    /\ acl' = acl \cup {<<h, This>>, <<h, sender>>}
    /\ events' = Append(events, [user |-> owner, feeHandle |-> h])

\* A variant of StoreAndGrant: the grants on the caller's superseded fee are
\* dropped.
StoreAndGrant_RevokeOld(sender, h, fee) ==
    /\ lastFee' = [lastFee EXCEPT ![sender] = h]
    /\ plain' = (h :> fee) @@ plain
    /\ acl' = {g \in acl : g[1] # lastFee[sender]} \cup {<<h, This>>, <<h, sender>>}
    /\ events' = Append(events, [user |-> sender, feeHandle |-> h])

\* _lastFee[msg.sender] = fee; allowThis; allow(msg.sender); emit Quoted.
StoreAndGrant(sender, h, fee) ==
    /\ lastFee' = [lastFee EXCEPT ![sender] = h]
    /\ plain' = (h :> fee) @@ plain
    /\ acl' = acl \cup {<<h, This>>, <<h, sender>>}
    /\ events' = Append(events, [user |-> sender, feeHandle |-> h])

\* A variant of quote: the input is used without FHE.fromExternal's check.
quote_Unverified(sender, ext, proof) ==
    LET arg == [ext |-> ext, proof |-> proof]
    IN  /\ Len(events) < MaxEvents
        /\ IF proof = EmptyProof THEN Reverted("quote", sender, arg, "Empty proof")
           ELSE LET fee == QuoteFee(ExtInputs[ext].val, maxBlocks, pricePerBlock)
                    h   == FeeHandle(ext, maxBlocks, pricePerBlock)
                IN  /\ StoreAndGrant(sender, h, fee)
                    /\ Returned("quote", sender, arg, h)
                    /\ UNCHANGED <<owner, pricePerBlock, maxBlocks>>
        /\ UNCHANGED <<engineVars, clientVars>>

quote(sender, ext, proof) ==
    LET arg == [ext |-> ext, proof |-> proof]
    IN  /\ Len(events) < MaxEvents
        /\ IF proof = EmptyProof THEN Reverted("quote", sender, arg, "Empty proof")
           ELSE IF ~ProofValid(sender, ext, proof)
                THEN Reverted("quote", sender, arg, "Invalid proof")
           ELSE LET fee == QuoteFee(ExtInputs[ext].val, maxBlocks, pricePerBlock)
                    h   == FeeHandle(ext, maxBlocks, pricePerBlock)
                IN  /\ StoreAndGrant(sender, h, fee)
                    /\ Returned("quote", sender, arg, h)
                    /\ UNCHANGED <<owner, pricePerBlock, maxBlocks>>
        /\ UNCHANGED <<engineVars, clientVars>>

Next ==
    \/ \E sender \in Callers, n \in TransferTargets : transferOwnership(sender, n)
    \/ \E sender \in Callers, newPrice \in SetterPrices : setPricePerBlock(sender, newPrice)
    \/ \E sender \in Callers, newMax \in SetterMaxBlocks : setMaxBlocks(sender, newMax)
    \/ \E sender \in Callers : getMyFeeHandle(sender)
    \/ getPricePerBlock
    \/ getMaxBlocks
    \/ \E sender \in Callers, ext \in InputIds, proof \in Proofs : quote(sender, ext, proof)

Spec == Init /\ [][Next]_vars

(***************************************************************************)
(* quote's arithmetic step by step, on one ingested input under one        *)
(* policy: the constructor accepts every price > 0 and every cap > 0, and  *)
(* fromExternal every 64-bit value.                                        *)
(***************************************************************************)
\* The caps at which the position of the top bit changes: 2^j and 2^j - 1.
BoundaryCaps == {2^j : j \in 0..15} \cup {2^j - 1 : j \in 1..16}

\* The caps on which every minutes value up to MaxMinutes is run.
DenseCaps == (1..MaxSmallCap) \cup {MAX_BLOCKS, MaxUint16}

EngineCaps == DenseCaps \cup BoundaryCaps

EnginePrices == {U64(1), U64(PRICE_PER_BLOCK), Pow2Word(63)}

\* The scenarios of the documentation.
ScenarioMinutes == {1, 30, 31, 2880, 5000}

\* The first minutes value past the ladder's range under cap mb.
LadderLimit(mb) == BLOCK_MINUTES * 2^(_msbPos(mb) + 1)

EngineMinutes(mb) ==
    (IF mb \in DenseCaps THEN {U64(m) : m \in 0..MaxMinutes} ELSE {Zero64})
    \cup {U64(m) : m \in ScenarioMinutes}
    \cup {U64(BLOCK_MINUTES * mb + d) : d \in {-1, 0, 1}}
    \cup {U64(LadderLimit(mb) + d) : d \in {-1, 0, 1}}
    \cup {Pow2Word(32), Pow2Word(63), WordSub(Max64, U64(BLOCK_MINUTES)), Max64}

EngineInit ==
    /\ \E price \in EnginePrices, mb \in EngineCaps : Constructed(price, mb)
    /\ pc = "loop"
    /\ ki = _msbPos(maxBlocks) + 1
    /\ \E m \in EngineMinutes(maxBlocks) :
          run = [minutes |-> m, rem |-> LadderStart(m).rem,
                 blocks |-> LadderStart(m).blocks, fee |-> Zero64, ops |-> StartOps]
    /\ ClientLoaded

\* The loop's test ki > 0 holds: --ki; k = ki; the body.
LoopIter ==
    /\ pc = "loop"
    /\ ki > 0
    /\ ki' = Dec8(ki)
    /\ LET st == LadderIter(run, ki')
       IN  run' = [run EXCEPT !.rem = st.rem, !.blocks = st.blocks,
                              !.ops = @ \o IterOps(run, ki')]
    /\ UNCHANGED <<pc, contractVars, clientVars>>

\* The loop's test fails: the ceiling adjustment.
CeilStep ==
    /\ pc = "loop"
    /\ ~(ki > 0)
    /\ run' = [run EXCEPT !.blocks = CeilAdjust(run), !.ops = @ \o CeilOps]
    /\ pc' = "ceiled"
    /\ UNCHANGED <<ki, contractVars, clientVars>>

CapStep ==
    /\ pc = "ceiled"
    /\ run' = [run EXCEPT !.blocks = CapBlocks(run.blocks, maxBlocks),
                           !.ops = @ \o CapOps(maxBlocks)]
    /\ pc' = "capped"
    /\ UNCHANGED <<ki, contractVars, clientVars>>

MulStep ==
    /\ pc = "capped"
    /\ run' = [run EXCEPT !.fee = FeeOf(run.blocks, pricePerBlock),
                           !.ops = @ \o MulOps(pricePerBlock)]
    /\ pc' = "done"
    /\ UNCHANGED <<ki, contractVars, clientVars>>

EngineNext == LoopIter \/ CeilStep \/ CapStep \/ MulStep

SpecEngine == EngineInit /\ [][EngineNext]_vars


(***************************************************************************)
(* The client's FHE singleton: initializeFHE under interleaved calls, with *)
(* initSDK and createInstance settling, either way, between them.          *)
(***************************************************************************)
\* The attempts whose promise is still pending.
PendingAttempts == {i \in 1..Len(attempts) : attempts[i].pc \in {"initSDK", "createInstance"}}

\* What a call returned: an instance at once, or the promise of an attempt.
GotInstance(inst) == [promise |-> NoPromise, outcome |-> "fulfilled", instance |-> inst]

GotPromise(id, outcome, inst) == [promise |-> id, outcome |-> outcome, instance |-> inst]

\* The promise of attempt id settles for every caller that holds it.
Settle(id, outcome, inst) ==
    fheCalls' = [c \in 1..Len(fheCalls) |->
                    IF fheCalls[c].promise = id
                    THEN GotPromise(id, outcome, inst) ELSE fheCalls[c]]

\* catch (error) { initPromise = null; throw error; }
CatchInit(id) ==
    /\ initPromise' = NoPromise
    /\ attempts' = [attempts EXCEPT ![id].pc = "rejected"]
    /\ Settle(id, "rejected", NoInstance)

\* A variant of initializeFHE: the pending initialization is not looked at.
initializeFHE_NoPendingCheck ==
    /\ Len(fheCalls) < MaxInitCalls
    /\ IF fheInstance # NoInstance
       THEN /\ fheCalls' = Append(fheCalls, GotInstance(fheInstance))
            /\ UNCHANGED <<fheInstance, initPromise, isSDKInitialized, attempts, sdkCalls>>
       ELSE /\ initPromise' = Len(attempts) + 1
            /\ fheCalls' = Append(fheCalls, GotPromise(Len(attempts) + 1, "pending", NoInstance))
            /\ IF ~isSDKInitialized
               THEN /\ attempts' = Append(attempts, [pc |-> "initSDK"])
                    /\ sdkCalls' = [sdkCalls EXCEPT !.initSDK = @ + 1]
               ELSE /\ attempts' = Append(attempts, [pc |-> "createInstance"])
                    /\ sdkCalls' = [sdkCalls EXCEPT !.createInstance = @ + 1]
            /\ UNCHANGED <<fheInstance, isSDKInitialized>>
    /\ UNCHANGED <<contractVars, engineVars, retryVars, hookVars>>

\* A call of initializeFHE, up to the initializer's first await.
initializeFHE ==
    /\ Len(fheCalls) < MaxInitCalls
    /\ IF fheInstance # NoInstance
       THEN /\ fheCalls' = Append(fheCalls, GotInstance(fheInstance))
            /\ UNCHANGED <<fheInstance, initPromise, isSDKInitialized, attempts, sdkCalls>>
       ELSE IF initPromise # NoPromise
       THEN /\ fheCalls' = Append(fheCalls,
                   GotPromise(initPromise,
                              IF initPromise \in PendingAttempts THEN "pending"
                              ELSE attempts[initPromise].pc,
                              NoInstance))
            /\ UNCHANGED <<fheInstance, initPromise, isSDKInitialized, attempts, sdkCalls>>
       ELSE /\ initPromise' = Len(attempts) + 1
            /\ fheCalls' = Append(fheCalls, GotPromise(Len(attempts) + 1, "pending", NoInstance))
            /\ IF ~isSDKInitialized
               THEN /\ attempts' = Append(attempts, [pc |-> "initSDK"])
                    /\ sdkCalls' = [sdkCalls EXCEPT !.initSDK = @ + 1]
               ELSE /\ attempts' = Append(attempts, [pc |-> "createInstance"])
                    /\ sdkCalls' = [sdkCalls EXCEPT !.createInstance = @ + 1]
            /\ UNCHANGED <<fheInstance, isSDKInitialized>>
    /\ UNCHANGED <<contractVars, engineVars, retryVars, hookVars>>

\* await initSDK() returns in attempt id: the flag is set and createInstance
\* is invoked.
InitSDKResolves(id) ==
    /\ attempts[id].pc = "initSDK"
    /\ isSDKInitialized' = TRUE
    /\ attempts' = [attempts EXCEPT ![id].pc = "createInstance"]
    /\ sdkCalls' = [sdkCalls EXCEPT !.createInstance = @ + 1]
    /\ UNCHANGED <<fheInstance, initPromise, fheCalls, contractVars, engineVars, retryVars, hookVars>>

\* await initSDK() throws in attempt id.
InitSDKRejects(id) ==
    /\ attempts[id].pc = "initSDK"
    /\ CatchInit(id)
    /\ UNCHANGED <<fheInstance, isSDKInitialized, sdkCalls, contractVars, engineVars, retryVars, hookVars>>

\* await createInstance(SepoliaConfig) returns in attempt id.
CreateInstanceResolves(id) ==
    /\ attempts[id].pc = "createInstance"
    /\ fheInstance' = id
    /\ attempts' = [attempts EXCEPT ![id].pc = "fulfilled"]
    /\ Settle(id, "fulfilled", id)
    /\ UNCHANGED <<initPromise, isSDKInitialized, sdkCalls, contractVars, engineVars, retryVars, hookVars>>

\* await createInstance(SepoliaConfig) throws in attempt id.
CreateInstanceRejects(id) ==
    /\ attempts[id].pc = "createInstance"
    /\ CatchInit(id)
    /\ UNCHANGED <<fheInstance, isSDKInitialized, sdkCalls, contractVars, engineVars, retryVars, hookVars>>

\* getFHEInstance throws unless an instance exists; isFHEInitialized.
isFHEInitialized == fheInstance # NoInstance

getFHEInstance == IF isFHEInitialized THEN fheInstance ELSE "FHE not initialized"

FheNext ==
    \/ initializeFHE
    \/ \E id \in 1..Len(attempts) : InitSDKResolves(id)
    \/ \E id \in 1..Len(attempts) : InitSDKRejects(id)
    \/ \E id \in 1..Len(attempts) : CreateInstanceResolves(id)
    \/ \E id \in 1..Len(attempts) : CreateInstanceRejects(id)

SpecFhe == Init /\ [][FheNext]_vars

(***************************************************************************)
(* fetchRetry: one call, with fetchImpl answering or failing each attempt  *)
(* and the retry timer firing.                                             *)
(***************************************************************************)
\* response.status values: one that is retried on and one that is not.
Statuses == {"200", "503"}

\* init.retries: absent, or a number; init.retryOn: absent, an array, or a
\* function.
Undefined == -2

RetriesGiven == {Undefined, -1} \cup (0..MaxRetries)

RetryOnGiven == {"undefined", "[]", "[503]", "function"}

isPositiveInteger(value) == value >= 0

\* validateOptions(init), for the options the call can be given.
validateOptions(init) == init.retries = Undefined \/ isPositiveInteger(init.retries)

\* init.retries ?? mergedDefaults.retries; init.retryOn ?? mergedDefaults.retryOn
MergedOptions(init) ==
    [retries |-> IF init.retries = Undefined THEN BASE_DEFAULTS.retries ELSE init.retries,
     retryOn |-> CASE init.retryOn = "undefined" -> BASE_DEFAULTS.retryOn
                   [] init.retryOn = "[]" -> ArrayOf({})
                   [] init.retryOn = "[503]" -> ArrayOf({"503"})
                   [] OTHER -> RetryOnFn]

IsArray(retryOn) == retryOn.isArray

\* What the retryOn function answers: retry, do not retry, or it throws.
Verdicts == {"retry", "stop", "throws"}

Resolve(value) ==
    /\ settlements' = Append(settlements, [kind |-> "resolve", attempt |-> retryAttempt, value |-> value])
    /\ retryPc' = "settled"

Reject(value) ==
    /\ settlements' = Append(settlements, [kind |-> "reject", attempt |-> retryAttempt, value |-> value])
    /\ retryPc' = "settled"

\* retry(attempt, error, response): setTimeout(() => wrappedFetch(attempt + 1), delay)
Retry ==
    /\ retryPc' = "timer"
    /\ UNCHANGED settlements

\* const fetchRetry = createFetchRetry(fetch); fetchRetry(input, init), up to
\* wrappedFetch(0).
fetchRetry(init) ==
    /\ retryPc = "idle"
    /\ IF ~validateOptions(init)
       THEN /\ Reject("retries must be a positive integer")
            /\ UNCHANGED <<retryOpts, retryAttempt, fetchCount, fetchLog>>
       ELSE /\ retryOpts' = MergedOptions(init)
            /\ retryAttempt' = 0
            /\ fetchCount' = fetchCount + 1
            /\ retryPc' = "fetching"
            /\ UNCHANGED <<fetchLog, settlements>>
    /\ UNCHANGED <<contractVars, engineVars, fheVars, hookVars>>

\* A variant of FetchResponds: the last attempt is retried as well.
FetchResponds_OneMore(status, verdict) ==
    /\ retryPc = "fetching"
    /\ fetchLog' = Append(fetchLog, status)
    /\ IF IsArray(retryOpts.retryOn)
       THEN /\ verdict = "stop"
            /\ IF status \in retryOpts.retryOn.statuses /\ retryAttempt <= retryOpts.retries
               THEN Retry ELSE Resolve(status)
       ELSE IF verdict = "throws" THEN Reject("retryOn threw")
       ELSE IF verdict = "retry" /\ retryAttempt <= retryOpts.retries
            THEN Retry ELSE Resolve(status)
    /\ UNCHANGED <<retryOpts, retryAttempt, fetchCount>>
    /\ UNCHANGED <<contractVars, engineVars, fheVars, hookVars>>

\* fetchImpl(request, init).then(async response => ...)
FetchResponds(status, verdict) ==
    /\ retryPc = "fetching"
    /\ fetchLog' = Append(fetchLog, status)
    /\ IF IsArray(retryOpts.retryOn)
       THEN /\ verdict = "stop"
            /\ IF status \in retryOpts.retryOn.statuses /\ retryAttempt < retryOpts.retries
               THEN Retry ELSE Resolve(status)
       ELSE IF verdict = "throws" THEN Reject("retryOn threw")
       ELSE IF verdict = "retry" /\ retryAttempt < retryOpts.retries
            THEN Retry ELSE Resolve(status)
    /\ UNCHANGED <<retryOpts, retryAttempt, fetchCount>>
    /\ UNCHANGED <<contractVars, engineVars, fheVars, hookVars>>

\* fetchImpl(request, init) ... .catch(async error => ...)
FetchFails(verdict) ==
    /\ retryPc = "fetching"
    /\ fetchLog' = Append(fetchLog, "error")
    /\ IF IsArray(retryOpts.retryOn)
       THEN /\ verdict = "stop"
            /\ IF retryAttempt < retryOpts.retries THEN Retry ELSE Reject("error")
       ELSE IF verdict = "throws" THEN Reject("retryOn threw")
       ELSE IF verdict = "retry" /\ retryAttempt < retryOpts.retries
            THEN Retry ELSE Reject("error")
    /\ UNCHANGED <<retryOpts, retryAttempt, fetchCount>>
    /\ UNCHANGED <<contractVars, engineVars, fheVars, hookVars>>

\* The timer of retry fires: wrappedFetch(attempt + 1).
TimerFires ==
    /\ retryPc = "timer"
    /\ retryAttempt' = retryAttempt + 1
    /\ fetchCount' = fetchCount + 1
    /\ retryPc' = "fetching"
    /\ UNCHANGED <<retryOpts, fetchLog, settlements>>
    /\ UNCHANGED <<contractVars, engineVars, fheVars, hookVars>>

RetryNext ==
    \/ \E r \in RetriesGiven, on \in RetryOnGiven : fetchRetry([retries |-> r, retryOn |-> on])
    \/ \E status \in Statuses, verdict \in Verdicts : FetchResponds(status, verdict)
    \/ \E verdict \in Verdicts : FetchFails(verdict)
    \/ TimerFires

SpecRetry == Init /\ [][RetryNext]_vars

(***************************************************************************)
(* The useCalculateFee hook: calls of calculateFee, each suspended at its  *)
(* awaits, interleaved with each other and with reset.                     *)
(***************************************************************************)
\* The total minutes a call is given; encryptParkingMinutes refuses 0.
HookMinutes == {0, 45}

\* The calls that have started and not settled.
InFlight == {c \in 1..Len(hookCalls) : hookCalls[c].pc # "settled"}

\* catch (error): setState({ isCalculating: false, error: ..., result: null })
CatchCalculate(c, message) ==
    /\ hookState' = [isCalculating |-> FALSE, error |-> message, result |-> NoResult]
    /\ hookCalls' = [hookCalls EXCEPT ![c].pc = "settled"]

\* A call of calculateFee(minutes, userAddress), up to await initializeFHE().
calculateFee(minutes) ==
    /\ Len(hookCalls) < MaxHookCalls
    /\ IF CONTRACT_ADDRESS = ""
       THEN /\ hookState' = [hookState EXCEPT !.error = "Contract address not configured"]
            /\ hookCalls' = Append(hookCalls, [pc |-> "settled", minutes |-> minutes])
       ELSE /\ hookState' = [isCalculating |-> TRUE, error |-> Null, result |-> NoResult]
            /\ hookCalls' = Append(hookCalls, [pc |-> "initializeFHE", minutes |-> minutes])
    /\ UNCHANGED <<CONTRACT_ADDRESS, contractVars, engineVars, fheVars, retryVars>>

\* await initializeFHE() returns in call c: encryptParkingMinutes is called,
\* and throws for minutes <= 0.
InitializeFHEReturns(c) ==
    /\ hookCalls[c].pc = "initializeFHE"
    /\ IF hookCalls[c].minutes <= 0
       THEN CatchCalculate(c, "Minutes must be greater than 0")
       ELSE /\ hookCalls' = [hookCalls EXCEPT ![c].pc = "encryptParkingMinutes"]
            /\ UNCHANGED hookState
    /\ UNCHANGED <<CONTRACT_ADDRESS, contractVars, engineVars, fheVars, retryVars>>

\* await encryptParkingMinutes(...) returns in call c: callQuote is called.
EncryptReturns(c) ==
    /\ hookCalls[c].pc = "encryptParkingMinutes"
    /\ hookCalls' = [hookCalls EXCEPT ![c].pc = "callQuote"]
    /\ UNCHANGED <<hookState, CONTRACT_ADDRESS, contractVars, engineVars, fheVars, retryVars>>

\* await callQuote(...) returns in call c: the result is set.
CallQuoteReturns(c) ==
    /\ hookCalls[c].pc = "callQuote"
    /\ hookState' = [isCalculating |-> FALSE, error |-> Null, result |-> ResultOf(c)]
    /\ hookCalls' = [hookCalls EXCEPT ![c].pc = "settled"]
    /\ UNCHANGED <<CONTRACT_ADDRESS, contractVars, engineVars, fheVars, retryVars>>

\* The await call c is suspended at throws.
AwaitThrows(c) ==
    /\ c \in InFlight
    /\ CatchCalculate(c, "Failed to calculate fee")
    /\ UNCHANGED <<CONTRACT_ADDRESS, contractVars, engineVars, fheVars, retryVars>>

\* reset()
reset ==
    /\ hookState' = [isCalculating |-> FALSE, error |-> Null, result |-> NoResult]
    /\ UNCHANGED <<hookCalls, CONTRACT_ADDRESS, contractVars, engineVars, fheVars, retryVars>>

HookInit ==
    /\ Constructed(U64(PRICE_PER_BLOCK), MAX_BLOCKS)
    /\ pc = "idle"
    /\ ki = 0
    /\ run = NoRun
    /\ FheLoaded
    /\ RetryLoaded
    /\ HookMounted
    /\ CONTRACT_ADDRESS \in {"", ConfiguredAddress}

HookNext ==
    \/ \E minutes \in HookMinutes : calculateFee(minutes)
    \/ \E c \in 1..Len(hookCalls) : InitializeFHEReturns(c)
    \/ \E c \in 1..Len(hookCalls) : EncryptReturns(c)
    \/ \E c \in 1..Len(hookCalls) : CallQuoteReturns(c)
    \/ \E c \in 1..Len(hookCalls) : AwaitThrows(c)
    \/ reset

SpecHook == HookInit /\ [][HookNext]_vars

(***************************************************************************)
(* The claims.                                                             *)
(***************************************************************************)
Min(a, b) == IF a <= b THEN a ELSE b

CeilDiv(m, d) == (m + d - 1) \div d

\* A word as the low half of a 128-bit number.
Wide(w) == <<w[1], w[2], w[3], w[4], 0, 0, 0, 0>>

\* The identities holding a decrypt grant on handle h.
Grantees(h) == {g[2] : g \in {q \in acl : q[1] = h}}

\* The minutes of the run in progress lie in the ladder's range, and are > 0.
RunInRange ==
    /\ Small(run.minutes)
    /\ ToNat(run.minutes) > 0
    /\ ToNat(run.minutes) <= LadderLimit(maxBlocks) - 1

\* C1: for every minutes > 0 within the ladder's range and every policy, the
\* fee quote computes is the integer min(ceil(minutes / 30), maxBlocks) *
\* pricePerBlock.
C1_FeeIsProduct ==
    (pc = "done" /\ RunInRange) =>
        Wide(run.fee) =
            WordMulFull(U64(Min(CeilDiv(ToNat(run.minutes), BLOCK_MINUTES), maxBlocks)),
                        pricePerBlock)

\* C2: the block count quote multiplies by the price never exceeds
\* maxBlocks, and equals maxBlocks for every 64-bit minutes greater than
\* maxBlocks * 30, also beyond the ladder's range.
C2_CapEnforced ==
    (pc = "capped") =>
        /\ ~WordGt(run.blocks, U64(maxBlocks))
        /\ WordGt(run.minutes, U64(maxBlocks * BLOCK_MINUTES)) => run.blocks = U64(maxBlocks)

\* C2's case: an input past the ladder's range has been capped.
C2_Witness ==
    /\ pc = "capped"
    /\ maxBlocks = MAX_BLOCKS
    /\ run.minutes = Max64
    /\ run.blocks = U64(MAX_BLOCKS)

\* C3: after a successful quote exactly the contract and the caller hold a
\* decrypt grant on the fee ciphertext it returned and stored, and the same
\* is true, from then on, of every fee ciphertext a quote has produced.
C3_GrantsAfterQuote ==
    /\ (tx.fn = "quote" /\ tx.status = "ok") =>
            /\ tx.ret = lastFee[tx.sender]
            /\ Grantees(tx.ret) = {This, tx.sender}
    /\ \A i \in 1..Len(events) :
            Grantees(events[i].feeHandle) = {This, events[i].user}

\* C3's case: a user who is not the owner has quoted.
C3_Witness ==
    /\ tx.fn = "quote"
    /\ tx.status = "ok"
    /\ tx.sender = "A"
    /\ owner = Deployer
    /\ <<tx.ret, "A">> \in acl

\* C4: whatever has been called, the handle of a fee ciphertext one
\* requester's quote produced is never what getMyFeeHandle returns to another
\* requester, and no other requester holds a decrypt grant on it.
C4_AccessIsolation ==
    \A i \in 1..Len(events) : \A b \in Callers \ {events[i].user} :
        /\ lastFee[b] # events[i].feeHandle
        /\ (tx.fn = "getMyFeeHandle" /\ tx.sender = b) => tx.ret # events[i].feeHandle
        /\ <<events[i].feeHandle, b>> \notin acl

\* C4's case: A and B have both quoted, and B reads its handle.
C4_Witness ==
    /\ Len(events) = 2
    /\ events[1].user = "A"
    /\ events[2].user = "B"
    /\ tx.fn = "getMyFeeHandle"
    /\ tx.sender = "B"
    /\ tx.ret = events[2].feeHandle

\* C5: a policy call by an identity that is not the owner fails with the
\* not-authorized error and leaves pricePerBlock, maxBlocks and owner
\* unchanged.
C5_NonOwnerRejected ==
    [][(/\ tx'.fn \in {"setPricePerBlock", "setMaxBlocks", "transferOwnership"}
        /\ tx'.sender # owner)
       => (/\ tx'.status \in NotAuthorizedError
           /\ UNCHANGED <<pricePerBlock, maxBlocks, owner>>)]_vars

\* C5's case: the former owner's call, with a valid argument, was rejected.
C5_Witness ==
    /\ tx.fn = "setPricePerBlock"
    /\ tx.sender = Deployer
    /\ tx.arg = Pow2Word(63)
    /\ tx.status = "Not owner"
    /\ owner = "A"
    /\ pricePerBlock = U64(PRICE_PER_BLOCK)

\* C6: the owner's setPricePerBlock(0), setMaxBlocks(0) and
\* transferOwnership(address(0)) fail with the invalid-policy error and
\* leave policy, owner, records, grants unchanged.
C6_ZeroRejected ==
    [][(/\ tx'.sender = owner
        /\ \/ tx'.fn = "setPricePerBlock" /\ tx'.arg = Zero64
           \/ tx'.fn = "setMaxBlocks" /\ tx'.arg = 0
           \/ tx'.fn = "transferOwnership" /\ tx'.arg = ZeroAddress)
       => (/\ tx'.status \in InvalidPolicyError
           /\ UNCHANGED <<pricePerBlock, maxBlocks, owner, lastFee, plain, acl, events>>)]_vars

\* C6's case: the owner's setPricePerBlock(0) was rejected after a quote.
C6_Witness ==
    /\ tx.fn = "setPricePerBlock"
    /\ tx.sender = owner
    /\ tx.arg = Zero64
    /\ tx.status = "price=0"
    /\ Len(events) > 0

\* C7: a quote whose proof is empty, or is not the attestation of the input
\* for the caller, fails with the invalid-proof error and changes nothing:
\* records, grants, events, policy.
C7_BadProofRecordsNothing ==
    [][(/\ tx'.fn = "quote"
        /\ \/ tx'.arg.proof = EmptyProof
           \/ tx'.arg.proof # ProofOf(tx'.arg.ext)
           \/ ExtInputs[tx'.arg.ext].user # tx'.sender)
       => (/\ tx'.status \in InvalidProofError
           /\ UNCHANGED <<pricePerBlock, maxBlocks, owner, lastFee, plain, acl, events>>)]_vars

\* C7's case: B replayed A's input and proof after A's quote, and failed.
C7_Witness ==
    /\ tx.fn = "quote"
    /\ tx.sender = "B"
    /\ tx.arg.proof = ProofOf(1)
    /\ tx.arg.ext = 1
    /\ tx.status = "Invalid proof"
    /\ lastFee["A"] # NoHandle
    /\ lastFee["B"] = NoHandle

\* C8: pricePerBlock > 0 and maxBlocks > 0 in every reachable state, and the
\* block size the ladder divides by is 30.
C8_PolicyPositive ==
    /\ pricePerBlock # Zero64
    /\ maxBlocks > 0
    /\ Chunk(0) = 30

\* C8's case: both setters have succeeded, and a call with zero has failed.
C8_Witness ==
    /\ pricePerBlock = Pow2Word(63)
    /\ maxBlocks = 2
    /\ tx.fn = "setMaxBlocks"
    /\ tx.arg = 0
    /\ tx.status = "maxBlocks=0"

\* C9: under one policy, an input with fewer minutes never gets more blocks
\* (after the cap).
C9_Monotone ==
    (pc = "capped") =>
        \A m1 \in EngineMinutes(maxBlocks) :
            WordGt(run.minutes, m1) => ~WordGt(QuoteBlocks(m1, maxBlocks), run.blocks)

\* C9's case: some smaller input got strictly fewer blocks.
C9_Witness ==
    /\ pc = "capped"
    /\ \E m1 \in EngineMinutes(maxBlocks) :
          /\ WordGt(run.minutes, m1)
          /\ WordGt(run.blocks, QuoteBlocks(m1, maxBlocks))

\* C10: under the deployed policy (30, 50, 96): 1 -> 1 block, fee 50;
\* 30 -> 1, 50; 31 -> 2, 100; 2880 -> 96, 4800; 5000 -> 96, 4800.
C10_Scenarios ==
    (/\ pc = "done"
     /\ pricePerBlock = U64(PRICE_PER_BLOCK)
     /\ maxBlocks = MAX_BLOCKS)
    => /\ run.minutes = U64(1) => run.blocks = U64(1) /\ run.fee = U64(50)
       /\ run.minutes = U64(30) => run.blocks = U64(1) /\ run.fee = U64(50)
       /\ run.minutes = U64(31) => run.blocks = U64(2) /\ run.fee = U64(100)
       /\ run.minutes = U64(2880) => run.blocks = U64(96) /\ run.fee = U64(4800)
       /\ run.minutes = U64(5000) => run.blocks = U64(96) /\ run.fee = U64(4800)

\* C10's case: the capped scenario has been computed.
C10_Witness ==
    /\ pc = "done"
    /\ pricePerBlock = U64(PRICE_PER_BLOCK)
    /\ maxBlocks = MAX_BLOCKS
    /\ run.minutes = U64(5000)
    /\ run.fee = U64(4800)

\* The step is a call of fn that succeeded.
Succeeded(fn) == tx'.fn = fn /\ tx'.status = "ok"

\* C11: last write wins, per identity: a successful quote replaces the
\* caller's record by the handle it returns and leaves every other identity's
\* record as it was, no other call changes a record, and getMyFeeHandle
\* returns the caller's record; so a caller reads the handle of its own most
\* recent successful quote.
C11_LastWriteWins ==
    [][/\ Succeeded("quote") =>
              /\ lastFee'[tx'.sender] = tx'.ret
              /\ \A x \in Callers \ {tx'.sender} : lastFee'[x] = lastFee[x]
       /\ ~Succeeded("quote") => lastFee' = lastFee
       /\ tx'.fn = "getMyFeeHandle" => tx'.ret = lastFee[tx'.sender]]_vars

\* C11's case: A has quoted twice, under two policies, and reads the handle
\* of the second quote.
C11_Witness ==
    /\ Len(events) = 2
    /\ events[1].user = "A"
    /\ events[2].user = "A"
    /\ events[1].feeHandle # events[2].feeHandle
    /\ tx.fn = "getMyFeeHandle"
    /\ tx.sender = "A"
    /\ tx.ret = events[2].feeHandle

\* C12: policy updates are not retroactive: a successful setPricePerBlock,
\* setMaxBlocks or transferOwnership leaves every stored record, every fee
\* ciphertext and every grant as it was, and the fee a successful quote
\* stores is computed from the pricePerBlock and maxBlocks in force at that
\* quote.
C12_NotRetroactive ==
    [][/\ (Succeeded("setPricePerBlock") \/ Succeeded("setMaxBlocks")
              \/ Succeeded("transferOwnership"))
          => UNCHANGED <<lastFee, plain, acl>>
       /\ Succeeded("quote") =>
              /\ lastFee'[tx'.sender] = tx'.ret
              /\ plain'[tx'.ret] =
                     QuoteFee(ExtInputs[tx'.arg.ext].val, maxBlocks, pricePerBlock)
              /\ \A h \in DOMAIN plain : plain'[h] = plain[h]]_vars

\* C12's case: the price was raised after A's quote, and A's stored fee is
\* still the one computed under the old price.
C12_Witness ==
    /\ tx.fn = "setPricePerBlock"
    /\ tx.status = "ok"
    /\ pricePerBlock = Pow2Word(63)
    /\ lastFee["A"] # NoHandle
    /\ lastFee["A"].price = U64(PRICE_PER_BLOCK)
    /\ plain[lastFee["A"]] = U64(MAX_BLOCKS * PRICE_PER_BLOCK)

\* C13: a successful quote emits exactly one Quoted event, carrying the
\* caller and the handle that the call returns and that is the caller's
\* stored record; a failed quote and every other call emit none.
C13_OneEventPerQuote ==
    [][IF Succeeded("quote")
       THEN /\ events' = Append(events, [user |-> tx'.sender, feeHandle |-> tx'.ret])
            /\ tx'.ret = lastFee'[tx'.sender]
       ELSE events' = events]_vars

\* C13's case: the second successful quote, by B, has appended its event.
C13_Witness ==
    /\ tx.fn = "quote"
    /\ tx.status = "ok"
    /\ tx.sender = "B"
    /\ Len(events) = 2
    /\ events[1].user = "A"
    /\ events[2] = [user |-> "B", feeHandle |-> tx.ret]

\* The calls that mutate policy.
PolicyFns == {"setPricePerBlock", "setMaxBlocks", "transferOwnership"}

\* C14: authority follows ownership: a successful transferOwnership(n) makes
\* n the owner and leaves pricePerBlock and maxBlocks unchanged; a policy call
\* by the owner of the moment is never rejected as not authorized, and one by
\* any other identity, the previous owner included, always is; at every
\* moment exactly one identity passes the owner check.
C14_AuthorityFollowsOwnership ==
    [][/\ Succeeded("transferOwnership") =>
              /\ owner' = tx'.arg
              /\ UNCHANGED <<pricePerBlock, maxBlocks>>
       /\ tx'.fn \in PolicyFns =>
              /\ tx'.sender # owner => tx'.status \in NotAuthorizedError
              /\ tx'.sender = owner => tx'.status \notin NotAuthorizedError
              /\ tx'.status = "ok" => tx'.sender = owner
       /\ Cardinality({c \in Callers \cup {This, ZeroAddress} : onlyOwner(c)}) = 1
       /\ owner # ZeroAddress]_vars

\* C14's case: after a transfer to A, A has changed the cap under the price
\* the transfer left in place.
C14_Witness ==
    /\ owner = "A"
    /\ tx.fn = "setMaxBlocks"
    /\ tx.sender = "A"
    /\ tx.status = "ok"
    /\ maxBlocks = 2
    /\ pricePerBlock = U64(PRICE_PER_BLOCK)

\* C15: policy reads are idempotent: a read of pricePerBlock or maxBlocks
\* returns the stored value, and the stored value changes only in a step that
\* is a successful call of its setter; so two reads with quotes, failed
\* setter calls, transfers and handle reads between them, but no successful
\* setter call, return the same value.
C15_ReadsIdempotent ==
    [][/\ tx'.fn = "pricePerBlock" => tx'.ret = pricePerBlock /\ tx'.ret = pricePerBlock'
       /\ tx'.fn = "maxBlocks" => tx'.ret = maxBlocks /\ tx'.ret = maxBlocks'
       /\ ~Succeeded("setPricePerBlock") => pricePerBlock' = pricePerBlock
       /\ ~Succeeded("setMaxBlocks") => maxBlocks' = maxBlocks]_vars

\* C15's case: after the owner raised the price, a transfer and two quotes,
\* the price is read, and it is the raised one.
C15_Witness ==
    /\ tx.fn = "pricePerBlock"
    /\ tx.ret = Pow2Word(63)
    /\ owner = "A"
    /\ Len(events) = 2
    /\ events[1].feeHandle.price = Pow2Word(63)

\* floor(log2 n), for n > 0 of 16 bits.
Log2Floor(n) == CHOOSE k \in 0..15 : 2^k <= n /\ n < 2^(k + 1)

\* The number of operations of the given kind in a trace.
CountOps(ops, kind) == Cardinality({i \in 1..Len(ops) : ops[i][1] = kind})

\* C16: the trace is data-independent: under a fixed policy the sequence of
\* primitive operations of a finished quote (kinds, order and plaintext
\* constants) is the one quote performs on the input 0 and on the input
\* 2^64 - 1, hence the same for any two inputs, and it has
\* floor(log2 maxBlocks) + 1 ladder iterations whatever the input.
C16_DataIndependentTrace ==
    (pc = "done") =>
        /\ run.ops = QuoteOps(Zero64, maxBlocks, pricePerBlock)
        /\ run.ops = QuoteOps(Max64, maxBlocks, pricePerBlock)
        /\ CountOps(run.ops, "sub") = Log2Floor(maxBlocks) + 1
        /\ CountOps(run.ops, "select") = 2 * (Log2Floor(maxBlocks) + 1) + 2

\* C16's case: a quote of an input within the cap has finished under the
\* deployed cap, after seven iterations.
C16_Witness ==
    /\ pc = "done"
    /\ maxBlocks = MAX_BLOCKS
    /\ run.minutes = U64(31)
    /\ CountOps(run.ops, "sub") = 7
    /\ Len(run.ops) = 2 + 7 * 8 + 5 + 4 + 2

\* C17: with kMax = floor(log2 maxBlocks), the block count after the ceiling
\* adjustment and before the cap is ceil(minutes / 30) for every ingested
\* minutes from 0 to 30 * 2^(kMax + 1) - 1.
C17_LadderExactInRange ==
    (/\ pc = "ceiled"
     /\ Small(run.minutes)
     /\ ToNat(run.minutes) <= BLOCK_MINUTES * 2^(Log2Floor(maxBlocks) + 1) - 1)
    => run.blocks = U64(CeilDiv(ToNat(run.minutes), BLOCK_MINUTES))

\* C17's case: the last minutes value of the range under the deployed cap,
\* 3839, gives 128 blocks before the cap.
C17_Witness ==
    /\ pc = "ceiled"
    /\ maxBlocks = MAX_BLOCKS
    /\ run.minutes = U64(BLOCK_MINUTES * 2^7 - 1)
    /\ run.blocks = U64(2^7)

\* C18: the fee multiplication never wraps: under every policy the
\* constructor and the setters accept, the fee a successful quote stores is
\* the integer product of the block count and pricePerBlock, which is below
\* 2^64.
C18_MulNeverWraps ==
    (tx.fn = "quote" /\ tx.status = "ok") =>
        Wide(plain[tx.ret]) =
            WordMulFull(QuoteBlocks(ExtInputs[tx.arg.ext].val, tx.ret.mb), tx.ret.price)

\* C19: the subtraction is select-guarded: in every ladder iteration, for
\* every 64-bit remainder, the new remainder is rem - chunk, without wrap,
\* when rem >= chunk, and rem itself when rem < chunk; so a wrapped difference
\* is never adopted and the remainder never increases.
C19_SelectGuardedSub ==
    [][(pc = "loop" /\ ki > 0) =>
          LET chunk == U64(BLOCK_MINUTES * 2^(ki - 1))
          IN  /\ IF WordGt(chunk, run.rem)
                 THEN run'.rem = run.rem
                 ELSE WordAdd(run'.rem, chunk) = run.rem
              /\ ~WordGt(run'.rem, run.rem)]_vars

\* C19's case: under the deployed cap all seven iterations have run on 29
\* minutes; each computed a difference that wraps, and the remainder is
\* still 29.
C19_Witness ==
    /\ pc = "loop"
    /\ ki = 0
    /\ maxBlocks = MAX_BLOCKS
    /\ run.minutes = U64(29)
    /\ run.rem = U64(29)
    /\ CountOps(run.ops, "sub") = 7

\* C20: a quote whose encrypted input is zero, with its valid proof, is not
\* an error: it succeeds, computes 0 blocks, stores a fee ciphertext of 0 as
\* the caller's record, grants it to the contract and the caller exactly, and
\* emits the Quoted event, as any other successful quote does.
C20_ZeroInputQuote ==
    [][(/\ tx'.fn = "quote"
        /\ tx'.arg.proof # EmptyProof
        /\ ProofValid(tx'.sender, tx'.arg.ext, tx'.arg.proof)
        /\ ExtInputs[tx'.arg.ext].val = Zero64)
       => (/\ tx'.status = "ok"
           /\ QuoteBlocks(Zero64, maxBlocks) = Zero64
           /\ lastFee'[tx'.sender] = tx'.ret
           /\ plain'[tx'.ret] = Zero64
           /\ {g[2] : g \in {q \in acl' : q[1] = tx'.ret}} = {This, tx'.sender}
           /\ events' = Append(events, [user |-> tx'.sender, feeHandle |-> tx'.ret]))]_vars

\* C20's case: B has quoted its encrypted zero under the deployed policy, and
\* its stored fee is zero.
C20_Witness ==
    /\ tx.fn = "quote"
    /\ tx.status = "ok"
    /\ tx.sender = "B"
    /\ ExtInputs[tx.arg.ext].val = Zero64
    /\ pricePerBlock = U64(PRICE_PER_BLOCK)
    /\ maxBlocks = MAX_BLOCKS
    /\ lastFee["B"] = tx.ret
    /\ plain[tx.ret] = Zero64

\* C21: a zero-duration input is rejected before it reaches cap-and-price: no
\* quote whose encrypted input decrypts to 0 succeeds, so no requester's
\* stored fee is computed from minutes = 0.
C21_ZeroMinutesRejected ==
    /\ (tx.fn = "quote" /\ ExtInputs[tx.arg.ext].val = Zero64) => tx.status # "ok"
    /\ \A c \in Callers :
          lastFee[c] # NoHandle => ExtInputs[lastFee[c].inp].val # Zero64

\* C22: the block count after the ceiling adjustment and before the cap lies
\* in [0, maxBlocks], for every 64-bit input and every maxBlocks.
C22_PreCapWithinCap ==
    (pc = "ceiled") => ~WordGt(run.blocks, U64(maxBlocks))

\* C22, amended: the block count after the ceiling adjustment and before the
\* cap lies in [0, 2^(kMax + 1)] with kMax = floor(log2 maxBlocks), a bound
\* above maxBlocks, for every 64-bit input; it is the cap step that brings it
\* into [0, maxBlocks].
C22_PreCapBounded ==
    /\ (pc = "ceiled") => ~WordGt(run.blocks, U64(2^(Log2Floor(maxBlocks) + 1)))
    /\ (pc = "capped") => ~WordGt(run.blocks, U64(maxBlocks))

\* C22's case: the largest input under the deployed cap of 96 leaves 128
\* blocks before the cap.
C22_Witness ==
    /\ pc = "ceiled"
    /\ maxBlocks = MAX_BLOCKS
    /\ run.minutes = Max64
    /\ run.blocks = U64(128)

\* The index in the trace of the j-th operation of the i-th ladder iteration.
IterOp(i, j) == Len(StartOps) + 8 * (i - 1) + j

\* C23: for every maxBlocks of 16 bits, _msbPos returns floor(log2 maxBlocks)
\* (checked for each cap on all values that share its top bit), and the loop
\* processes k = kMax, kMax - 1, ..., 0 once each in descending order: the
\* counter stays within 0..kMax + 1, the i-th iteration performed is the one
\* for bit kMax + 1 - i with chunk 30 * 2^k, computed without overflow, and
\* the loop is left only when the iteration for k = 0 has run.
C23_LoopBound ==
    LET kMax == Log2Floor(maxBlocks)
        done == kMax + 1 - ki
    IN  /\ ki >= 0 /\ ki <= kMax + 1
        /\ pc # "loop" => ki = 0
        /\ Len(run.ops) >= Len(StartOps) + 8 * done
        /\ pc = "loop" => Len(run.ops) = Len(StartOps) + 8 * done
        /\ CountOps(run.ops, "sub") = done
        /\ \A i \in 1..done :
              LET k == kMax + 1 - i
              IN  /\ BLOCK_MINUTES * 2^k < 2^30
                  /\ run.ops[IterOp(i, 1)] = asEuint64(U64(BLOCK_MINUTES * 2^k - 1))
                  /\ run.ops[IterOp(i, 3)] = asEuint64(U64(BLOCK_MINUTES * 2^k))
                  /\ run.ops[IterOp(i, 6)] = asEuint64(U64(2^k))
        /\ (pc = "loop" /\ ki = kMax + 1 /\ run.minutes = Zero64) =>
              \A x \in 2^kMax .. maxBlocks : _msbPos(x) = kMax

\* C23's case: under the largest cap the loop has run its sixteen iterations,
\* the last one for k = 0.
C23_Witness ==
    /\ pc = "loop"
    /\ ki = 0
    /\ maxBlocks = MaxUint16
    /\ Len(run.ops) = Len(StartOps) + 8 * 16
    /\ run.ops[IterOp(16, 6)] = asEuint64(U64(1))

\* C24: out-of-range inputs saturate: for every 64-bit minutes of at least
\* 30 * 2^(kMax + 1) the block count before the cap is exactly 2^(kMax + 1),
\* which is above maxBlocks; so for every 64-bit input the capped block count
\* is min(ceil(minutes / 30), maxBlocks), under every cap.
C24_Saturation ==
    LET limit == BLOCK_MINUTES * 2^(Log2Floor(maxBlocks) + 1)
    IN  /\ (pc = "ceiled" /\ ~WordGt(U64(limit), run.minutes)) =>
              /\ run.blocks = U64(2^(Log2Floor(maxBlocks) + 1))
              /\ WordGt(run.blocks, U64(maxBlocks))
        /\ (pc = "capped") =>
              IF WordGt(run.minutes, U64(BLOCK_MINUTES * maxBlocks))
              THEN run.blocks = U64(maxBlocks)
              ELSE run.blocks = U64(CeilDiv(ToNat(run.minutes), BLOCK_MINUTES))

\* C24's case: under a cap lowered to 2 the input 2^63, far past the ladder's
\* range of 119 minutes, has been capped to 2 blocks.
C24_Witness ==
    /\ pc = "capped"
    /\ maxBlocks = 2
    /\ run.minutes = Pow2Word(63)
    /\ run.blocks = U64(2)

\* C25: the loop invariant of restoring division: before and after every
\* ladder iteration the ingested minutes equal rem + 30 * blocks, for every
\* 64-bit input; and for minutes below 30 * 2^(kMax + 1), once the iteration
\* for bit k has run, rem < 30 * 2^k and blocks is floor(minutes / 30) with
\* the bits below k cleared.
C25_LoopInvariant ==
    (pc = "loop") =>
        /\ WordAdd(run.rem, WordMul(U64(BLOCK_MINUTES), run.blocks)) = run.minutes
        /\ ~WordGt(run.rem, run.minutes)
        /\ Small(run.blocks)
        /\ (/\ Small(run.minutes)
            /\ ToNat(run.minutes) < BLOCK_MINUTES * 2^(Log2Floor(maxBlocks) + 1)
            /\ ki <= Log2Floor(maxBlocks))
           => /\ ToNat(run.rem) < BLOCK_MINUTES * 2^ki
              /\ ToNat(run.blocks) =
                     ((ToNat(run.minutes) \div BLOCK_MINUTES) \div 2^ki) * 2^ki

\* C25's case: on 200 minutes under the deployed cap the iterations for bits
\* 6..1 have run: blocks is 6, the remainder 20.
C25_Witness ==
    /\ pc = "loop"
    /\ ki = 1
    /\ maxBlocks = MAX_BLOCKS
    /\ run.minutes = U64(200)
    /\ run.blocks = U64(6)
    /\ run.rem = U64(20)

\* C26: in a policy call the authorization check comes before the value
\* check: setPricePerBlock(0), setMaxBlocks(0) or transferOwnership(zero
\* address) by an identity that is not the owner fails with the
\* not-authorized error, not with an invalid-policy error, and changes
\* nothing.
C26_AuthBeforeValue ==
    [][(/\ tx'.sender # owner
        /\ \/ tx'.fn = "setPricePerBlock" /\ tx'.arg = Zero64
           \/ tx'.fn = "setMaxBlocks" /\ tx'.arg = 0
           \/ tx'.fn = "transferOwnership" /\ tx'.arg = ZeroAddress)
       => (/\ tx'.status \in NotAuthorizedError
           /\ tx'.status \notin InvalidPolicyError
           /\ UNCHANGED <<owner, pricePerBlock, maxBlocks, lastFee, plain, acl, events>>)]_vars

\* C26's case: B, who is not the owner, has called setMaxBlocks(0) after the
\* ownership went to A.
C26_Witness ==
    /\ owner = "A"
    /\ tx.fn = "setMaxBlocks"
    /\ tx.sender = "B"
    /\ tx.arg = 0
    /\ tx.status = "Not owner"

\* C27: grants only grow: no step removes a decrypt grant, so the requester
\* and the contract keep their grants on every fee ciphertext a quote has
\* produced, superseded ones included; and a successful transferOwnership
\* leaves the grants exactly as they were, giving the new owner none.
C27_GrantsOnlyGrow ==
    [][/\ acl \subseteq acl'
       /\ \A i \in 1..Len(events') :
             /\ <<events'[i].feeHandle, events'[i].user>> \in acl'
             /\ <<events'[i].feeHandle, This>> \in acl'
       /\ Succeeded("transferOwnership") => acl' = acl]_vars

\* C27's case: A's second quote, under a changed policy, has superseded its
\* first fee, on which A and the contract still hold their grants.
C27_Witness ==
    /\ tx.fn = "quote"
    /\ tx.status = "ok"
    /\ Len(events) = 2
    /\ events[1].user = "A"
    /\ events[2].user = "A"
    /\ lastFee["A"] = events[2].feeHandle
    /\ events[1].feeHandle # lastFee["A"]
    /\ <<events[1].feeHandle, "A">> \in acl
    /\ <<events[1].feeHandle, This>> \in acl

\* The step is a call of initializeFHE; what it returned.
FheCallStep == Len(fheCalls') = Len(fheCalls) + 1

FheCallGot == fheCalls'[Len(fheCalls')]

\* C28: initializeFHE is a singleton under every interleaving: a call made
\* after a success returns the instance, a call made while an initialization
\* is pending returns that pending promise, and neither invokes initSDK or
\* createInstance; at most one initialization is pending; a failure rejects
\* every caller holding the promise and clears initPromise, so that the next
\* call starts a new attempt; initSDK is not invoked again once it has
\* completed, and the instance, once created, is never replaced.
C28_InitSingleton ==
    [][/\ Cardinality(PendingAttempts) <= 1
       /\ (FheCallStep /\ fheInstance # NoInstance) =>
             /\ FheCallGot = GotInstance(fheInstance)
             /\ UNCHANGED <<attempts, sdkCalls>>
       /\ (FheCallStep /\ fheInstance = NoInstance /\ PendingAttempts # {}) =>
             /\ FheCallGot.promise \in PendingAttempts
             /\ FheCallGot.outcome = "pending"
             /\ UNCHANGED <<attempts, sdkCalls>>
       /\ (FheCallStep /\ fheInstance = NoInstance /\ PendingAttempts = {}) =>
             /\ Len(attempts') = Len(attempts) + 1
             /\ FheCallGot.promise = Len(attempts')
             /\ FheCallGot.outcome = "pending"
       /\ \A id \in PendingAttempts :
             attempts'[id].pc = "rejected" =>
                 /\ initPromise' = NoPromise
                 /\ \A c \in 1..Len(fheCalls) :
                       fheCalls[c].promise = id => fheCalls'[c].outcome = "rejected"
       /\ \A id \in PendingAttempts :
             attempts'[id].pc = "fulfilled" =>
                 \A c \in 1..Len(fheCalls) :
                     fheCalls[c].promise = id =>
                         fheCalls'[c].outcome = "fulfilled" /\ fheCalls'[c].instance = fheInstance'
       /\ isSDKInitialized => sdkCalls'.initSDK = sdkCalls.initSDK
       /\ (fheInstance # NoInstance \/ \E id \in PendingAttempts : attempts[id].pc = "createInstance")
             => sdkCalls'.createInstance = sdkCalls.createInstance
       /\ fheInstance # NoInstance => fheInstance' = fheInstance]_vars

\* C28's case: the first initialization failed under its caller; the second
\* call started a new one, the third call got the same pending promise, both
\* were fulfilled, and the fourth call got the instance.
C28_Witness ==
    /\ Len(fheCalls) = 4
    /\ fheCalls[1] = GotPromise(1, "rejected", NoInstance)
    /\ fheCalls[2] = GotPromise(2, "fulfilled", 2)
    /\ fheCalls[3] = GotPromise(2, "fulfilled", 2)
    /\ fheCalls[4] = GotInstance(2)
    /\ isFHEInitialized
    /\ getFHEInstance = 2

\* What is retried on, with an array retryOn: a fetch error, or a response
\* whose status is in the array.
Retryable(outcome) == outcome = "error" \/ outcome \in retryOpts.retryOn.statuses

\* C29: bounded retry: a fetchRetry call invokes fetchImpl at most
\* retries + 1 times, attempts 0..retries, and calls resolve or reject
\* exactly once, which is when it has nothing left in flight; with an array
\* retryOn, a response whose status is not in the array is resolved at once,
\* one whose status is in the array is retried until attempt = retries and
\* that last response is then resolved, and fetch errors are retried until
\* the error of attempt = retries is rejected, after retries + 1 attempts.
C29_BoundedRetry ==
    /\ fetchCount <= retryOpts.retries + 1
    /\ retryAttempt <= retryOpts.retries
    /\ retryPc \in {"fetching", "timer"} => fetchCount = retryAttempt + 1
    /\ Len(settlements) = (IF retryPc = "settled" THEN 1 ELSE 0)
    /\ retryPc = "fetching" => Len(fetchLog) = fetchCount - 1
    /\ retryPc \in {"timer", "settled"} => Len(fetchLog) = fetchCount
    /\ (IsArray(retryOpts.retryOn) /\ fetchCount > 0) =>
          /\ \A i \in 1..Len(fetchLog) :
                (i < Len(fetchLog) \/ retryPc = "timer") => Retryable(fetchLog[i])
          /\ retryPc = "settled" =>
                LET last == fetchLog[Len(fetchLog)]
                    s    == settlements[1]
                IN  /\ s.value = last
                    /\ s.attempt = Len(fetchLog) - 1
                    /\ s.kind = (IF last = "error" THEN "reject" ELSE "resolve")
                    /\ Retryable(last) => Len(fetchLog) = retryOpts.retries + 1

\* C29's case: with retries = 2 and retryOn = [503], a fetch error, then a
\* 503, then a third 503, which is resolved.
C29_Witness ==
    /\ retryOpts = [retries |-> 2, retryOn |-> ArrayOf({"503"})]
    /\ fetchLog = <<"error", "503", "503">>
    /\ fetchCount = 3
    /\ retryPc = "settled"
    /\ settlements = <<[kind |-> "resolve", attempt |-> 2, value |-> "503"]>>

\* C30: the progress flag of useCalculateFee: isCalculating is true in every
\* state in which a calculateFee call has started and not settled, also when
\* two calls overlap; result and error are never both set; and isCalculating
\* is false once every started call has settled.
C30_ProgressFlag ==
    /\ InFlight # {} => hookState.isCalculating
    /\ ~(hookState.result # NoResult /\ hookState.error # Null)
    /\ InFlight = {} => ~hookState.isCalculating

=============================================================================
